---- MODULE Spec2Model ----
(***************************************************************************)
(* A model of src/phoenix.rs: the PhoenixAmm market object, its update     *)
(* (ladder refresh) and its quote (the walk of one side of the ladder,     *)
(* the fee and the price impact).                                          *)
(*                                                                         *)
(* u64 is modelled at a reduced width: every u64 value lies in 0..WordMax  *)
(* and the checked / wrapping operations overflow at WordMax.  Decimal     *)
(* values are modelled as exact fractions n/d.                             *)
(***************************************************************************)
EXTENDS Integers, Sequences, FiniteSets, TLC

VARIABLES
    amm,      \* the PhoenixAmm struct (src/phoenix.rs:26-51)
    last,     \* what the last call on the object returned
    updated   \* history: an update has returned Ok since construction

vars == <<amm, last, updated>>

----------------------------------------------------------------------------
(* Bounds of the model *)

\* u64::MAX of the model (the width of every u64 of the program)
WordMax == 1048575
\* levels per side of a ladder snapshot
MaxDepth == 2
\* largest size_in_base_lots of a level
MaxSize == 3
\* largest in_amount of a request
MaxInAmount == 4

\* price_in_ticks of the levels
Prices == {4, 5}
\* lot sizes of the markets
LotSizes == {1, 2}
\* base_lots_per_base_unit of the markets
BaseLotsPerBaseUnit == {1, 3}
\* tick size of the wide market, in quote lots per base unit per tick: two levels
\* of it fill more than WordMax together, each less than WordMax alone
WideTick == {116509}
\* taker fees of the markets
FeeBps == {0, 5000, 10001}
\* mints a request can name, its input and output being different mints; the
\* market trades BASE against QUOTE
Mints == {"BASE", "QUOTE", "OTHER"}

----------------------------------------------------------------------------
(* u64 arithmetic *)

\* a failed checked operation (None); -1 a failed multiply, -2 a failed divide.
\* A None operand is passed on, as the ? after each step of a chain returns early.
IsNone(x) == x < 0

checked_mul(a, b) ==
    IF IsNone(a) THEN a
    ELSE IF b # 0 /\ a > WordMax \div b THEN 0 - 1
    ELSE a * b

checked_div(a, b) ==
    IF IsNone(a) THEN a
    ELSE IF b = 0 THEN 0 - 2
    ELSE a \div b

saturating_sub(a, b) == IF a > b THEN a - b ELSE 0

\* a + b and a - b leave 0..WordMax
add_overflows(a, b) == a > WordMax - b
sub_overflows(a, b) == a < b
\* what the unchecked operators give when overflow checks are off
wrapping_add(a, b) == IF a > WordMax - b THEN a - (WordMax - b) - 1 ELSE a + b
wrapping_sub(a, b) == IF a < b THEN WordMax - (b - a) + 1 ELSE a - b

Min(a, b) == IF a < b THEN a ELSE b

----------------------------------------------------------------------------
(* Decimal: an Option<Decimal> is [some, n, d], the exact fraction n/d.  A     *)
(* division by zero is None.  Decimal rounds a quotient to 28 digits, which  *)
(* keeps the order of two quotients, so that a difference >= 0 of fractions  *)
(* is a difference >= 0 of Decimals.                                         *)

NoDecimal == [some |-> FALSE, n |-> 0, d |-> 0]
Dec(n, d) == [some |-> TRUE, n |-> n, d |-> d]

compute_decimal_div(a, b) == IF b = 0 THEN NoDecimal ELSE Dec(a, b)

\* (best_price - price) / best_price
compute_price_impact_pct(price, best_price) ==
    IF best_price.n = 0 THEN NoDecimal
    ELSE Dec(best_price.n * price.d - price.n * best_price.d, best_price.n * price.d)

\* a slip: best_price overwritten on every level
first_best_price_overwritten(best_price, level_price) == level_price

\* best_price is set on the first level only
first_best_price(best_price, level_price) ==
    IF best_price.some THEN best_price ELSE level_price

\* the 10_000 of the fee step
BPS == 10000

----------------------------------------------------------------------------
(* The walk of one side of the ladder.  A walk state holds the locals of    *)
(* quote: status is "run" until a ? returns Err or an unchecked operator   *)
(* panics; fills records, per level whose loop body ran, the lots matched, *)
(* the budget spent and the amount filled.                                 *)

StartWalk(side, budget) ==
    [side |-> side, status |-> "run", err |-> "",
     initial_budget |-> budget, budget |-> budget,
     out_amount |-> 0, best_price |-> NoDecimal, fills |-> << >>]

NoWalk == StartWalk("none", 0)

Fail(st, msg) == [st EXCEPT !.status = "Err", !.err = msg]
Panic(st, msg) == [st EXCEPT !.status = "Panic", !.err = msg]

\* the context of a failed step of a chain
MulDivContext(x, mul_msg) == IF x = 0 - 1 THEN mul_msg ELSE "division failed"

\* out_amount += filled_amount, and the budget left after the level
fill_level(st, base_lots, spent, filled_amount, level_price, checks) ==
    IF add_overflows(st.out_amount, filled_amount) /\ checks
    THEN Panic(st, "attempt to add with overflow")
    ELSE [st EXCEPT
            !.out_amount = wrapping_add(st.out_amount, filled_amount),
            !.budget = saturating_sub(st.budget, spent),
            !.best_price = first_best_price(st.best_price, level_price),
            !.fills = Append(st.fills, [base_lots |-> base_lots, spent |-> spent,
                                        filled_amount |-> filled_amount])]

\* one bid level, selling base
bid_level(m, lvl, st, checks) ==
    LET base_lots == Min(lvl.size_in_base_lots, st.budget)
        filled_amount ==
            checked_div(
                checked_mul(
                    checked_mul(
                        checked_mul(lvl.price_in_ticks, base_lots),
                        m.tick_size_in_quote_lots_per_base_unit_per_tick),
                    m.quote_lot_size),
                m.base_lots_per_base_unit)
        in_amount_for_level == checked_mul(base_lots, m.base_lot_size)
        level_price == compute_decimal_div(filled_amount, in_amount_for_level)
    IN  IF IsNone(filled_amount)
        THEN Fail(st, MulDivContext(filled_amount, "multiply overflow"))
        ELSE IF ~st.best_price.some /\ IsNone(in_amount_for_level)
        THEN Fail(st, "multiply overflow")
        ELSE IF ~st.best_price.some /\ ~level_price.some
        THEN Fail(st, "Cannot compute best price")
        ELSE fill_level(st, base_lots, base_lots, filled_amount, level_price, checks)

\* the base lots the remaining quote lot budget buys at a price
purchasable(m, price_in_ticks, quote_lot_budget) ==
    checked_div(
        checked_div(
            checked_mul(quote_lot_budget, m.base_lots_per_base_unit),
            m.tick_size_in_quote_lots_per_base_unit_per_tick),
        price_in_ticks)

\* the quote lots a whole level costs
level_quote_lots(m, price_in_ticks, base_lots) ==
    checked_div(
        checked_mul(
            checked_mul(price_in_ticks, base_lots),
            m.tick_size_in_quote_lots_per_base_unit_per_tick),
        m.base_lots_per_base_unit)

\* one ask level, selling quote
ask_level(m, lvl, st, checks) ==
    LET purchasable_base_lots == purchasable(m, lvl.price_in_ticks, st.budget)
        budget_bound == lvl.size_in_base_lots > purchasable_base_lots
        base_lots == IF budget_bound THEN purchasable_base_lots
                     ELSE lvl.size_in_base_lots
        quote_lots == IF budget_bound THEN st.budget
                      ELSE level_quote_lots(m, lvl.price_in_ticks, base_lots)
        filled_amount == checked_mul(base_lots, m.base_lot_size)
        in_amount_for_level == checked_mul(quote_lots, m.quote_lot_size)
        level_price == compute_decimal_div(filled_amount, in_amount_for_level)
    IN  IF IsNone(purchasable_base_lots)
        THEN Fail(st, MulDivContext(purchasable_base_lots, "multiple overflow"))
        ELSE IF IsNone(quote_lots)
        THEN Fail(st, MulDivContext(quote_lots, "multiple overflow"))
        ELSE IF IsNone(filled_amount)
        THEN Fail(st, "multiple overflow")
        ELSE IF ~st.best_price.some /\ IsNone(in_amount_for_level)
        THEN Fail(st, "multiple overflow")
        ELSE IF ~st.best_price.some /\ ~level_price.some
        THEN Fail(st, "Cannot compute price impact")
        ELSE fill_level(st, base_lots, quote_lots, filled_amount, level_price, checks)

\* a slip: the loop without its break on an exhausted budget
RECURSIVE walk_bids_no_break(_, _, _, _, _)
walk_bids_no_break(m, bids, i, st, checks) ==
    IF i > Len(bids) \/ st.status # "run"
    THEN st
    ELSE walk_bids_no_break(m, bids, i + 1, bid_level(m, bids[i], st, checks), checks)

RECURSIVE walk_bids(_, _, _, _, _)
walk_bids(m, bids, i, st, checks) ==
    IF i > Len(bids) \/ st.status # "run" \/ st.budget = 0
    THEN st
    ELSE walk_bids(m, bids, i + 1, bid_level(m, bids[i], st, checks), checks)

RECURSIVE walk_asks(_, _, _, _, _)
walk_asks(m, asks, i, st, checks) ==
    IF i > Len(asks) \/ st.status # "run" \/ st.budget = 0
    THEN st
    ELSE walk_asks(m, asks, i + 1, ask_level(m, asks[i], st, checks), checks)

----------------------------------------------------------------------------
(* quote *)

\* a slip: >= for >
not_enough_liquidity_ge(budget) == budget >= 0

\* not_enough_liquidity after the walk
not_enough_liquidity(budget) == budget > 0

\* in_amount of the result, selling base
sell_base_in_amount(initial_base_lot_budget, base_lot_budget, base_lot_size) ==
    checked_mul(initial_base_lot_budget - base_lot_budget, base_lot_size)

\* a slip: the consumed quote lots multiplied, as the base lots are
sell_quote_in_amount_mul(initial_quote_lot_budget, quote_lot_budget, quote_lot_size) ==
    checked_mul(initial_quote_lot_budget - quote_lot_budget, quote_lot_size)

\* in_amount of the result, selling quote
sell_quote_in_amount(initial_quote_lot_budget, quote_lot_budget, quote_lot_size) ==
    checked_div(initial_quote_lot_budget - quote_lot_budget, quote_lot_size)

\* the branch on input_mint: the walk and the in_amount it reports
sell_base(m, p, checks) ==
    LET base_lot_budget == checked_div(p.in_amount, m.base_lot_size)
    IN  IF IsNone(base_lot_budget)
        THEN [walk |-> Fail(StartWalk("bids", 0), "division failed"), in_amount |-> 0]
        ELSE LET w == walk_bids(m, m.ladder.bids, 1,
                                StartWalk("bids", base_lot_budget), checks)
                 in_amount == sell_base_in_amount(w.initial_budget, w.budget,
                                                  m.base_lot_size)
             IN  IF w.status = "run" /\ IsNone(in_amount)
                 THEN [walk |-> Fail(w, "multiply overflow"), in_amount |-> 0]
                 ELSE [walk |-> w, in_amount |-> in_amount]

sell_quote(m, p, checks) ==
    LET quote_lot_budget == checked_div(p.in_amount, m.quote_lot_size)
    IN  IF IsNone(quote_lot_budget)
        THEN [walk |-> Fail(StartWalk("asks", 0), "division failed"), in_amount |-> 0]
        ELSE LET w == walk_asks(m, m.ladder.asks, 1,
                                StartWalk("asks", quote_lot_budget), checks)
                 in_amount == sell_quote_in_amount(w.initial_budget, w.budget,
                                                   m.quote_lot_size)
             IN  IF w.status = "run" /\ IsNone(in_amount)
                 THEN [walk |-> Fail(w, "division failed"), in_amount |-> 0]
                 ELSE [walk |-> w, in_amount |-> in_amount]

NoQuote ==
    [not_enough_liquidity |-> FALSE, in_amount |-> 0, out_amount |-> 0,
     fee_amount |-> 0, fee_mint |-> "", price_impact_pct |-> NoDecimal]

Result(op, kind, err, p, q, w) ==
    [op |-> op, kind |-> kind, err |-> err, params |-> p, quote |-> q, walk |-> w]

\* the fee step and the price impact, after a walk that did not fail
fee_and_impact(m, p, r, checks) ==
    LET w == r.walk
        out_amount == w.out_amount
        fee_factor == wrapping_sub(BPS, m.taker_fee_bps)
        out_amount_after_fees == checked_div(checked_mul(out_amount, fee_factor), BPS)
        fee_amount == wrapping_sub(out_amount, out_amount_after_fees)
        price == compute_decimal_div(out_amount, p.in_amount)
        impact == IF p.in_amount > 0 /\ w.best_price.some
                  THEN compute_price_impact_pct(price, w.best_price)
                  ELSE Dec(1, 1)
    IN  IF sub_overflows(BPS, m.taker_fee_bps) /\ checks
        THEN Result("quote", "Panic", "attempt to subtract with overflow", p, NoQuote, w)
        ELSE IF IsNone(out_amount_after_fees)
        THEN Result("quote", "Err", MulDivContext(out_amount_after_fees, "multiply overflow"),
                    p, NoQuote, w)
        ELSE IF sub_overflows(out_amount, out_amount_after_fees) /\ checks
        THEN Result("quote", "Panic", "attempt to subtract with overflow", p, NoQuote, w)
        ELSE IF ~impact.some
        THEN Result("quote", "Err", "Cannot compute price impact", p, NoQuote, w)
        ELSE Result("quote", "Ok", "", p,
                    [not_enough_liquidity |-> not_enough_liquidity(w.budget),
                     in_amount |-> r.in_amount,
                     out_amount |-> out_amount_after_fees,
                     fee_amount |-> fee_amount,
                     fee_mint |-> p.output_mint,
                     price_impact_pct |-> impact],
                    w)

quote(m, p, checks) ==
    IF ~m.ladder.loaded
    THEN Result("quote", "Err", "Market has not been updated", p, NoQuote, NoWalk)
    ELSE LET r == IF p.input_mint = m.base_mint
                  THEN sell_base(m, p, checks)
                  ELSE sell_quote(m, p, checks)
         IN  IF r.walk.status # "run"
             THEN Result("quote", r.walk.status, r.walk.err, p, NoQuote, r.walk)
             ELSE fee_and_impact(m, p, r, checks)

----------------------------------------------------------------------------
(* The market object *)

NoLadder == [loaded |-> FALSE, bids |-> << >>, asks |-> << >>]
Ladder(bids, asks) == [loaded |-> TRUE, bids |-> bids, asks |-> asks]

NoParams == [in_amount |-> 0, input_mint |-> "", output_mint |-> ""]

\* the market header and the market of a keyed account
from_keyed_account(header, fee_bps, base_lots_per_base_unit) ==
    [base_mint |-> header.base_mint,
     quote_mint |-> header.quote_mint,
     taker_fee_bps |-> fee_bps,
     fee_pct |-> Dec(fee_bps, BPS),
     base_lot_size |-> header.base_lot_size,
     quote_lot_size |-> header.quote_lot_size,
     base_lots_per_base_unit |-> base_lots_per_base_unit,
     tick_size_in_quote_lots_per_base_unit_per_tick |->
        header.tick_size_in_quote_atoms_per_base_unit \div header.quote_lot_size,
     ladder |-> NoLadder]

\* a market header: the tick size in quote atoms is a multiple of the quote lot
Header(b, q, t) ==
    [base_mint |-> "BASE", quote_mint |-> "QUOTE",
     base_lot_size |-> b, quote_lot_size |-> q,
     tick_size_in_quote_atoms_per_base_unit |-> t * q]

\* the markets: every lot size and scale with a tick of one quote lot, and the
\* wide market with unit lots
Markets ==
    {from_keyed_account(Header(b, q, 1), f, u) :
        b \in LotSizes, q \in LotSizes, f \in FeeBps, u \in BaseLotsPerBaseUnit}
    \cup {from_keyed_account(Header(1, 1, t), f, 1) : t \in WideTick, f \in FeeBps}

Levels == [price_in_ticks : Prices, size_in_base_lots : 1..MaxSize]

Books == UNION {[1..k -> Levels] : k \in 0..MaxDepth}

\* a ladder is sorted best price first, and the book is not crossed
Descending(b) == \A i \in 1..(Len(b) - 1) : b[i].price_in_ticks > b[i + 1].price_in_ticks
Ascending(a) == \A i \in 1..(Len(a) - 1) : a[i].price_in_ticks < a[i + 1].price_in_ticks

Ladders ==
    {Ladder(b, a) : b \in {x \in Books : Descending(x)},
                    a \in {x \in Books : Ascending(x)}}

Uncrossed(l) ==
    l.bids = << >> \/ l.asks = << >> \/ l.bids[1].price_in_ticks < l.asks[1].price_in_ticks

\* the account maps handed to update: each account is missing, undecodable or good
AccountMaps ==
    [market : {"missing", "corrupt"}, clock : {"ok"}, ladder : {NoLadder}]
    \cup [market : {"ok"}, clock : {"missing", "corrupt"}, ladder : {NoLadder}]
    \cup [market : {"ok"}, clock : {"ok"}, ladder : {l \in Ladders : Uncrossed(l)}]

\* Err of update, "" when it returns Ok
update_error(account_map) ==
    IF account_map.market = "missing" THEN "market account not found"
    ELSE IF account_map.clock = "missing" THEN "clock account not found"
    ELSE IF account_map.clock = "corrupt" THEN "clock deserialize failed"
    ELSE IF account_map.market = "corrupt" THEN "Failed to load market"
    ELSE ""

\* a slip: the ladder replaced before the accounts are decoded
update_ladder_early(ladder, account_map) == account_map.ladder

\* self.ladder after update
update_ladder(ladder, account_map) ==
    IF update_error(account_map) = "" THEN account_map.ladder ELSE ladder

Init ==
    /\ amm \in Markets
    /\ last = Result("new", "Ok", "", NoParams, NoQuote, NoWalk)
    /\ updated = FALSE

\* a call of update with an account map
Update ==
    \E account_map \in AccountMaps :
        LET e == update_error(account_map)
        IN  /\ amm' = [amm EXCEPT !.ladder = update_ladder(amm.ladder, account_map)]
            /\ last' = Result("update", IF e = "" THEN "Ok" ELSE "Err", e,
                              NoParams, NoQuote, NoWalk)
            /\ updated' = (updated \/ e = "")

\* a call of quote; overflow_checks is the build profile of the call: with it the
\* unchecked + and - panic on overflow, without it they wrap
Quote ==
    \E a \in 0..MaxInAmount, i \in Mints, overflow_checks \in BOOLEAN :
      \E o \in Mints \ {i} :
        /\ last' = quote(amm, [in_amount |-> a, input_mint |-> i, output_mint |-> o],
                         overflow_checks)
        /\ UNCHANGED <<amm, updated>>

Next == Update \/ Quote

Spec == Init /\ [][Next]_vars

----------------------------------------------------------------------------
(* Reading the last call *)

IsQuote == last.op = "quote"
QuoteOk == last.op = "quote" /\ last.kind = "Ok"

\* the two pairs the market trades
SellsBase == last.params.input_mint = amm.base_mint /\ last.params.output_mint = amm.quote_mint
SellsQuote == last.params.input_mint = amm.quote_mint /\ last.params.output_mint = amm.base_mint
ValidPair == SellsBase \/ SellsQuote

\* the side of the ladder a valid request walks, and the lot size of the asset sold
WalkedSide == IF SellsBase THEN amm.ladder.bids ELSE amm.ladder.asks
SoldLotSize == IF SellsBase THEN amm.base_lot_size ELSE amm.quote_lot_size

\* the sum of the per-level fills, as an unbounded integer
RECURSIVE SumFilled(_)
SumFilled(fills) ==
    IF fills = << >> THEN 0 ELSE Head(fills).filled_amount + SumFilled(Tail(fills))

\* price_impact_pct compared with 0 and with 1
ImpactNonNegative == last.quote.price_impact_pct.n >= 0
ImpactIsOne == last.quote.price_impact_pct.n = last.quote.price_impact_pct.d

\* the first level of the walked side, and the quote lots it costs
FirstLevel == WalkedSide[1]
FirstLevelCost ==
    (FirstLevel.price_in_ticks * FirstLevel.size_in_base_lots
        * amm.tick_size_in_quote_lots_per_base_unit_per_tick) \div amm.base_lots_per_base_unit

\* the lot budget of the request exactly covers the first level of the walked side
ExactBudget ==
    /\ Len(WalkedSide) > 0
    /\ last.walk.initial_budget =
          (IF SellsBase THEN FirstLevel.size_in_base_lots ELSE FirstLevelCost)

\* the division by base_lots_per_base_unit of a whole level leaves no remainder
LevelExact(lvl) ==
    (lvl.price_in_ticks * lvl.size_in_base_lots
        * amm.tick_size_in_quote_lots_per_base_unit_per_tick
        * (IF SellsBase THEN amm.quote_lot_size ELSE 1)) % amm.base_lots_per_base_unit = 0
NoRemainder == \A i \in 1..Len(WalkedSide) : LevelExact(WalkedSide[i])

----------------------------------------------------------------------------
(* C1: a successful quote of a valid pair reports an in_amount that is at most
   the requested in_amount and a multiple of the lot size of the asset sold *)
C1_ConsumedLotAligned ==
    (QuoteOk /\ ValidPair) =>
        /\ last.quote.in_amount <= last.params.in_amount
        /\ last.quote.in_amount % SoldLotSize = 0

(* C2: for every taker_fee_bps, a successful quote has
   0 <= fee_amount <= out_amount before fee, and
   out_amount after fee + fee_amount = out_amount before fee *)
C2_FeeBound ==
    QuoteOk =>
        /\ 0 <= last.quote.fee_amount
        /\ last.quote.fee_amount <= last.walk.out_amount
        /\ last.quote.out_amount + last.quote.fee_amount = last.walk.out_amount

(* C3, as claimed, for the quotes that return: on an empty walked side and an
   in_amount > 0, out_amount before fee is 0, price_impact_pct is 1 and
   not_enough_liquidity is set, also when in_amount is less than one lot *)
C3_EmptySideFlagged ==
    (QuoteOk /\ ValidPair /\ WalkedSide = << >> /\ last.params.in_amount > 0) =>
        /\ last.walk.out_amount = 0
        /\ ImpactIsOne
        /\ last.quote.not_enough_liquidity

(* C3, amended: on an empty walked side the quote never returns Err, it returns
   a quote whenever taker_fee_bps <= 10000, and a returned quote has out_amount
   before fee 0, price_impact_pct 1 and not_enough_liquidity set exactly when
   in_amount holds at least one whole lot of the asset sold *)
C3_EmptySide ==
    (IsQuote /\ amm.ladder.loaded /\ ValidPair /\ WalkedSide = << >>) =>
        /\ last.kind # "Err"
        /\ (amm.taker_fee_bps <= BPS => last.kind = "Ok")
        /\ (last.kind = "Ok" =>
                /\ last.walk.out_amount = 0
                /\ ImpactIsOne
                /\ (last.quote.not_enough_liquidity
                        <=> last.params.in_amount \div SoldLotSize > 0))

C3_Witness ==
    /\ QuoteOk /\ ValidPair /\ WalkedSide = << >>
    /\ last.params.in_amount >= SoldLotSize
    /\ SoldLotSize > 1
    /\ last.quote.not_enough_liquidity

(* C4: with a ladder loaded, a quote for a pair other than (base, quote) and
   (quote, base) fails with InvalidAssetPair and walks neither side *)
C4_InvalidPairRejected ==
    (IsQuote /\ amm.ladder.loaded /\ ~ValidPair) =>
        /\ last.kind = "Err"
        /\ last.err = "InvalidAssetPair"
        /\ last.walk.side = "none"

(* C5, for the markets with taker_fee_bps <= 10000: a quote whose per-level
   fills add up to more than u64::MAX fails with an error: it does not panic,
   and the out_amount a returned quote is computed from is the unwrapped sum
   of the per-level fills *)
C5_OverflowFails ==
    (IsQuote /\ ValidPair /\ amm.taker_fee_bps <= BPS) =>
        /\ last.kind # "Panic"
        /\ (last.kind = "Ok" => last.walk.out_amount = SumFilled(last.walk.fills))

(* C6: quote fails with "Market has not been updated" exactly when no update
   has returned Ok since construction; a failed update leaves the ladder as it
   was; a loaded ladder is never unset *)
C6_Loaded ==
    /\ IsQuote => ((last.kind = "Err" /\ last.err = "Market has not been updated")
                        <=> ~updated)
    /\ updated <=> amm.ladder.loaded

C6_LadderNotLoaded ==
    /\ []C6_Loaded
    /\ [][/\ (last'.op = "update" /\ last'.kind = "Err") => amm'.ladder = amm.ladder
          /\ amm.ladder.loaded => amm'.ladder.loaded]_vars

C6_Witness ==
    /\ updated /\ amm.ladder.loaded
    /\ last.op = "update" /\ last.kind = "Err"

(* C7, as claimed: a successful quote whose lot budget exactly covers the
   first level of the walked side fills that level's full size, takes nothing
   from the second level, ends with budget 0 and does not set
   not_enough_liquidity *)
C7_FullLevel ==
    (QuoteOk /\ ValidPair /\ ExactBudget) =>
        /\ Len(last.walk.fills) = 1
        /\ last.walk.fills[1].base_lots = FirstLevel.size_in_base_lots
        /\ last.walk.budget = 0
        /\ ~last.quote.not_enough_liquidity

(* C7, amended: such a quote touches the first level only, ends with budget 0
   and does not set not_enough_liquidity; selling base it fills the level's
   full size; selling quote it fills the full size when
   price_in_ticks * size_in_base_lots * tick_size is a multiple of
   base_lots_per_base_unit, and fewer base lots than the size otherwise *)
C7_FullLevelExact ==
    (QuoteOk /\ ValidPair /\ ExactBudget) =>
        /\ Len(last.walk.fills) = 1
        /\ last.walk.budget = 0
        /\ ~last.quote.not_enough_liquidity
        /\ IF SellsBase \/ LevelExact(FirstLevel)
           THEN last.walk.fills[1].base_lots = FirstLevel.size_in_base_lots
           ELSE last.walk.fills[1].base_lots < FirstLevel.size_in_base_lots

C7_Witness ==
    /\ QuoteOk /\ SellsQuote /\ ExactBudget
    /\ Len(WalkedSide) = 2
    /\ amm.base_lots_per_base_unit > 1
    /\ LevelExact(FirstLevel)
    /\ last.walk.fills[1].base_lots = FirstLevel.size_in_base_lots

C10_Total ==
    (IsQuote /\ amm.ladder.loaded /\ ValidPair /\ amm.taker_fee_bps <= BPS
        /\ last.kind # "Ok")
        => (last.kind = "Panic" \/ last.err \in {"multiply overflow", "multiple overflow"})

====
